---- MODULE Spec2Model ----
(***************************************************************************)
(* A model of make_toy_data.py: the filesize-string parser, the signature  *)
(* content generator, and the run of the script (parse the size, fetch the *)
(* genes, build the prefixes, create the pool, map pool_processing over    *)
(* the prefixes).                                                          *)
(*                                                                         *)
(* A Python str is a sequence of pieces (TLA+ strings) whose concatenation *)
(* is the str: "a" + "b" is <<"a">> \o <<"b">>.  Command-line strings are  *)
(* sequences of one-character pieces, so that split, indexing and slicing  *)
(* are computed as Python computes them.                                   *)
(*                                                                         *)
(* Integers of the model have 32 bits, byte counts of the program do not:  *)
(* a byte count is a pair of limbs [hi, lo], standing for hi * 10^6 + lo.  *)
(***************************************************************************)
EXTENDS Integers, Sequences, FiniteSets, TLC

VARIABLES
    pc,             \* position of the script's top-level flow
    parsed_args,    \* the command line, as argparse returns it
    size_per_file,  \* --size_per_file, a str
    num_files,      \* --num_files
    filename_leaf,  \* --filename_leaf
    gzip_files,     \* --gzip
    num_cores,      \* --num_cores, None or an integer
    cpu_count,      \* what multiprocessing.cpu_count() returns on the machine
    entropy,        \* what seeds the random generators of this run
    bytes_per_file, \* result of parse_filesize_string
    gene_ids,       \* fetch_genes: the ids the search returned
    genes,          \* result of fetch_genes
    prefixes,       \* list of prefixes
    pool,           \* number of processes of the pool, None before it exists
    requests,       \* number of HTTP requests issued
    error,          \* the exception that ended the run, and where it was raised
    taskq,          \* chunks of the map not yet taken by a worker
    running,        \* what each busy worker of the pool is doing
    started,        \* number of pool_processing invocations started
    raised,         \* the exceptions of the chunks that failed, in order
    files,          \* the working directory: file name -> state of the file
    wrote,          \* the 'Wrote ...' lines printed
    fn_arg,         \* argument of the function under study
    fn_ret          \* its result

\* the command line and the machine: never assigned after the start
argvars == << parsed_args, size_per_file, num_files, filename_leaf, gzip_files,
              cpu_count, entropy >>

\* what the pool's workers change
mapvars == << taskq, running, started, raised, files, wrote >>

\* what the run of the script changes
runvars == << argvars, num_cores, gene_ids, prefixes, pool, requests, error, mapvars >>

vars == << pc, runvars, bytes_per_file, genes, fn_arg, fn_ret >>

\* None and an integer n, as values of one variable
None == << >>

Some(n) == <<n>>

\* no exception
NoExc == "no exception"

NoError == [exc |-> NoExc, at |-> "nowhere"]

(***************************************************************************)
(* Bounds of the model.                                                    *)
(***************************************************************************)
MaxFiles == 5       \* --num_files ranges over 1..MaxFiles
ManyFiles == 15     \* and over 1..ManyFiles in the runs of many files
MaxCpus == 3        \* cpu_count ranges over 1..MaxCpus
MaxCoresArg == 2    \* --num_cores ranges over None and 0..MaxCoresArg
MaxSeed == 1        \* entropy ranges over 0..MaxSeed
MaxSizeUnits == 12  \* sizes given to the generator: 0, 512, .., 512 * MaxSizeUnits

(***************************************************************************)
(* Byte counts: [hi, lo] stands for hi * 10^6 + lo, 0 <= lo < 10^6.        *)
(***************************************************************************)
Limb == 1000 * 1000

Big(hi, lo) == [hi |-> hi, lo |-> lo]

BigOfInt(n) == Big(n \div Limb, n % Limb)

\* n * b, for a small natural n
BigMulSmall(n, b) ==
    LET p == n * b.lo
    IN  Big(n * b.hi + (p \div Limb), p % Limb)

\* b divided by a small d > 0, truncated
BigDivSmall(b, d) ==
    Big(b.hi \div d, (((b.hi % d) * Limb) + b.lo) \div d)

\* the value of a byte count small enough for the model's integers
ToInt(b) == (b.hi * Limb) + b.lo

(***************************************************************************)
(* str.split(sep), float(str)                                              *)
(***************************************************************************)
\* the pieces of s between the positions at (in increasing order)
pieces_between(s, at) ==
    [k \in 1..(Len(at) + 1) |->
        SubSeq(s, (IF k = 1 THEN 0 ELSE at[k - 1]) + 1,
                  (IF k = Len(at) + 1 THEN Len(s) + 1 ELSE at[k]) - 1)]

\* s.split(sep): the pieces of s between the occurrences of sep
split(s, sep) ==
    pieces_between(s, SelectSeq([i \in 1..Len(s) |-> i], LAMBDA i : s[i] = sep))

Digits == {"0", "1", "2", "3", "4", "5", "6", "7", "8", "9"}

DigitVal(c) == CHOOSE d \in 0..9 : ToString(d) = c

RECURSIVE DigitsVal(_, _)
DigitsVal(s, acc) ==
    IF s = << >> THEN acc
    ELSE IF Head(s) = "." THEN DigitsVal(Tail(s), acc)
         ELSE DigitsVal(Tail(s), (10 * acc) + DigitVal(Head(s)))

RECURSIVE Pow10(_)
Pow10(k) == IF k = 0 THEN 1 ELSE 10 * Pow10(k - 1)

\* float(s) for a decimal literal: the value is num / scale; any other
\* string of the model's alphabet raises ValueError
float(s) ==
    LET dots == {i \in 1..Len(s) : s[i] = "."}
        digs == {i \in 1..Len(s) : s[i] \in Digits}
    IN  IF /\ digs # {}
           /\ Cardinality(dots) <= 1
           /\ dots \cup digs = 1..Len(s)
        THEN [exc |-> NoExc,
              num |-> DigitsVal(s, 0),
              scale |-> IF dots = {} THEN 1
                        ELSE Pow10(Len(s) - (CHOOSE i \in dots : TRUE))]
        ELSE [exc |-> "ValueError", num |-> 0, scale |-> 1]

(***************************************************************************)
(* parse_filesize_string                                                   *)
(***************************************************************************)
\* 1, 1.024E3, 1.024E6, 1.024E9, 1.024E12
unit_multipliers ==
    [u \in {"", "K", "M", "G", "T"} |->
        CASE u = ""  -> Big(0, 1)
          [] u = "K" -> Big(0, 1024)
          [] u = "M" -> Big(1, 24000)
          [] u = "G" -> Big(1024, 0)
          [] u = "T" -> Big(1024000, 0)]

Raise(e) == [exc |-> e, val |-> Big(0, 0)]

parse_filesize_string(filesize_string) ==
    LET fss == split(filesize_string, "_")
        filesize_value == float(fss[1])
    IN  IF filesize_value.exc # NoExc THEN Raise("ValueError")
        ELSE IF Len(fss) < 2 THEN Raise("IndexError")      \* fss[1]
        ELSE IF Len(fss[2]) < 1 THEN Raise("IndexError")   \* fss[1][0]
        ELSE LET filesize_unit_symbol == fss[2][1]
             IN  IF filesize_unit_symbol \notin DOMAIN unit_multipliers
                 THEN Raise("KeyError")
                 ELSE [exc |-> NoExc,
                       val |-> BigDivSmall(
                                 BigMulSmall(filesize_value.num,
                                             unit_multipliers[filesize_unit_symbol]),
                                 filesize_value.scale)]

(***************************************************************************)
(* The random generator: a state in 0..15, stepped by a full-period        *)
(* congruence; each draw reads the state and steps it.                     *)
(***************************************************************************)
NextRng(x) == ((5 * x) + 3) % 16

\* randrange(lo, hi): an integer in lo..hi-1
randrange(lo, hi, x) == lo + (x % (hi - lo))

\* str(uniform(0, 0.1) * -1): a piece naming a float between -0.1 and 0
small_float(x) == "-0.0" \o ToString(x % 10)

(***************************************************************************)
(* get_signature_content.  Tabs and newlines are pieces of their own.      *)
(***************************************************************************)
letters == <<"A", "B", "C", "D">>

\* one row too few
num_rows_short == 80 - 1

num_rows == 80

\* int(bytes_per_file / bytes_per_column), bytes_per_column = 1.65 * 1024
num_columns_of(bytes) == (10 * ToInt(bytes)) \div 16896

\* for j in range(1, 16): random_string += letters[randrange(0, 4)]
RECURSIVE random_string_from(_, _, _)
random_string_from(j, x, acc) ==
    IF j >= 16 THEN [str |-> acc, rng |-> x]
    ELSE random_string_from(j + 1, NextRng(x),
                            Append(acc, letters[randrange(0, 4, x) + 1]))

\* for i in range(1, num_columns): header += 'Foobar' + prefix + ...
RECURSIVE header_from(_, _, _, _, _)
header_from(i, ncols, prefix, x, acc) ==
    IF i >= ncols THEN [str |-> acc, rng |-> x]
    ELSE LET rs  == random_string_from(1, x, << >>)
             ri2 == ToString(randrange(1, 9, rs.rng))
             x2  == NextRng(rs.rng)
             ri3 == ToString(randrange(1, 9, x2))
             x3  == NextRng(x2)
         IN  header_from(i + 1, ncols, prefix, x3,
                         acc \o <<"Foobar">> \o prefix \o <<ri2, "_BazMoo_", ri3>>
                             \o rs.str \o <<"-1", "\t">>)

\* for j in range(2, num_columns): value += str(random_small_float) + '\t'
RECURSIVE value_from(_, _, _, _)
value_from(j, ncols, x, acc) ==
    IF j >= ncols THEN [str |-> acc, rng |-> x]
    ELSE value_from(j + 1, ncols, NextRng(x), acc \o <<small_float(x), "\t">>)

\* rows reading the gene list from its first position
gene_index_from_zero(i) == i - 1

\* the position of the gene list that row i reads
gene_index(i) == i

\* the rows i = lo..hi of "for i in range(1, num_rows + 1)", joined by
\* newlines, the generator going from row to row (the rows are taken in
\* halves, in their order); genes[k] of the source is gs[k + 1] here
RECURSIVE values_between(_, _, _, _, _)

rows_joined(first, rest) ==
    IF rest.exc # NoExc THEN rest
    ELSE [exc |-> NoExc, str |-> first.str \o <<"\n">> \o rest.str, rng |-> rest.rng]

rows_after(first, lo, hi, ncols, gs) ==
    IF first.exc # NoExc THEN first
    ELSE rows_joined(first, values_between(lo, hi, ncols, gs, first.rng))

one_row(v) == [exc |-> NoExc, str |-> v.str, rng |-> v.rng]

values_between(lo, hi, ncols, gs, x) ==
    IF lo = hi
    THEN IF gene_index(lo) >= Len(gs)
         THEN [exc |-> "IndexError", str |-> << >>, rng |-> x]
         ELSE one_row(value_from(2, ncols, x, <<gs[gene_index(lo) + 1], "\t">>))
    ELSE rows_after(values_between(lo, (lo + hi) \div 2, ncols, gs, x),
                    ((lo + hi) \div 2) + 1, hi, ncols, gs)

\* signature_data = header + '\n' + values
signature_data(header, values) ==
    IF values.exc # NoExc
    THEN [exc |-> values.exc, val |-> << >>]
    ELSE [exc |-> NoExc, val |-> header.str \o <<"\n">> \o values.str]

rows_below(header, ncols, gs) ==
    signature_data(header, values_between(1, num_rows, ncols, gs, header.rng))

\* get_signature_content(prefix), reading the globals bytes_per_file and
\* genes, with the random generator in state seed
get_signature_content(prefix, bytes, gs, seed) ==
    rows_below(header_from(1, num_columns_of(bytes), prefix, seed, <<"GENE", "\t">>),
               num_columns_of(bytes), gs)

(***************************************************************************)
(* Reading a generated text: its lines, the fields of a line.  Every field *)
(* the generator writes ends with a tab, so split leaves an empty piece at *)
(* the end of each line, which is no field.                                *)
(***************************************************************************)
Lines(text) == split(text, "\n")

Fields(line) == LET f == split(line, "\t") IN SubSeq(f, 1, Len(f) - 1)

HeaderLine(text) == Lines(text)[1]

DataRows(text) == Tail(Lines(text))

\* the gene list the fetch returns when it finds n genes, named by position
GeneList(n) == [i \in 1..n |-> "gene" \o ToString(i - 1)]

\* retmax of the two queries: the most genes a fetch returns
retmax == 100

(***************************************************************************)
(* The functions alone: parse_filesize_string on a size string, and        *)
(* get_signature_content on a prefix, under a size and a gene list.        *)
(***************************************************************************)
IdleRun ==
    /\ parsed_args = None
    /\ size_per_file = << >> /\ num_files = 0 /\ filename_leaf = "" /\ gzip_files = FALSE
    /\ num_cores = None /\ cpu_count = 1 /\ entropy = 0
    /\ gene_ids = 0 /\ prefixes = << >> /\ pool = None /\ requests = 0
    /\ error = NoError
    /\ taskq = << >> /\ running = {} /\ started = 0 /\ raised = << >>
    /\ files = << >> /\ wrote = {}

NotCalled == [exc |-> "not called"]

SizeValues ==
    { <<"1">>, <<"2">>, <<"2", "5">>, <<"3", "0", "0">>, <<"1", ".", "5">>,
      <<"0">>, <<"x">>, << >> }

SizeUnits ==
    { << >>, <<"K">>, <<"K", "i", "B">>, <<"M">>, <<"M", "i", "B">>, <<"M", "B">>,
      <<"G">>, <<"G", "i", "B">>, <<"T">>, <<"T", "i", "B">>, <<"B">>, <<"k">>,
      <<"X">>, <<"_", "M">> }

SizeStrings ==
    { v \o <<"_">> \o u : v \in SizeValues, u \in SizeUnits } \cup SizeValues

InitParse ==
    /\ pc = "call_parse"
    /\ fn_arg \in SizeStrings
    /\ fn_ret = NotCalled
    /\ bytes_per_file = Big(0, 0) /\ genes = << >>
    /\ IdleRun

CallParse ==
    /\ pc = "call_parse"
    /\ fn_ret' = parse_filesize_string(fn_arg)
    /\ pc' = "return_parse"
    /\ UNCHANGED << runvars, bytes_per_file, genes, fn_arg >>

SpecParse == InitParse /\ [][CallParse]_vars

InitContent ==
    /\ pc = "call_content"
    /\ bytes_per_file \in { BigOfInt(512 * n) : n \in 0..MaxSizeUnits }
    /\ genes \in { GeneList(n) : n \in 0..retmax }
    /\ fn_arg \in [prefix : { <<"A", "B">>, <<"Y", "Z">>, << >> }, seed : 0..MaxSeed]
    /\ fn_ret = NotCalled
    /\ IdleRun

CallContent ==
    /\ pc = "call_content"
    /\ fn_ret' = get_signature_content(fn_arg.prefix, bytes_per_file, genes, fn_arg.seed)
    /\ pc' = "return_content"
    /\ UNCHANGED << runvars, bytes_per_file, genes, fn_arg >>

SpecContent == InitContent /\ [][CallContent]_vars

\* 1024^n as a byte count, n = 0, 1, 2, 3, 4
Pow1024 ==
    [u \in {"", "K", "M", "G", "T"} |->
        CASE u = ""  -> Big(0, 1)
          [] u = "K" -> Big(0, 1024)
          [] u = "M" -> Big(1, 48576)
          [] u = "G" -> Big(1073, 741824)
          [] u = "T" -> Big(1099511, 627776)]

\* the parts of '<v>_<u><rest>'
FirstUnderscore(s) == CHOOSE i \in 1..Len(s) : s[i] = "_" /\ \A j \in 1..(i - 1) : s[j] # "_"

HasUnderscore(s) == \E i \in 1..Len(s) : s[i] = "_"

ValuePart(s) == SubSeq(s, 1, FirstUnderscore(s) - 1)

UnitOf(s) == IF FirstUnderscore(s) = Len(s) THEN "" ELSE s[FirstUnderscore(s) + 1]

(***************************************************************************)
(* C1: parse_filesize_string, given '<v>_<u><rest>' with u one of K, M, G, *)
(* T, or with nothing after the underscore, returns v x 1024^n, n = 1, 2,  *)
(* 3, 4, 0; for every other unit character it fails.                       *)
(***************************************************************************)
C1_ParseContract ==
    (pc = "return_parse" /\ HasUnderscore(fn_arg) /\ float(ValuePart(fn_arg)).exc = NoExc)
    => LET v == float(ValuePart(fn_arg))
           u == UnitOf(fn_arg)
       IN  IF u \in DOMAIN Pow1024
           THEN /\ fn_ret.exc = NoExc
                /\ fn_ret.val = BigDivSmall(BigMulSmall(v.num, Pow1024[u]), v.scale)
           ELSE fn_ret.exc # NoExc

\* get_signature_content has returned, or raised
Returned == pc = "return_content"

Generated == Returned /\ fn_ret.exc = NoExc

\* cols is within one of bytes / 1684.8
WithinOne(cols, bytes) ==
    LET d == (cols * 16848) - (10 * bytes)
    IN  d <= 16848 /\ -d <= 16848

\* the columns of the header, counted with its GENE field or without it:
\* one of the counts is within one of bytes / 1684.8, and one of them is
\* the number of values every row has after its gene symbol
SameColumns(header, rows, bytes) ==
    /\ \E cols \in {Len(header), Len(header) - 1} : WithinOne(cols, bytes)
    /\ \E cols \in {Len(header), Len(header) - 1} :
           \A r \in 1..Len(rows) : Len(Fields(rows[r])) - 1 = cols

(***************************************************************************)
(* C3: the number of columns of the header line is within one of           *)
(* size / 1684.8, and every data row has exactly that number of values     *)
(* after its gene symbol: header and data rows have matching field counts. *)
(***************************************************************************)
C3_ColumnCounts ==
    Generated => SameColumns(Fields(HeaderLine(fn_ret.val)), DataRows(fn_ret.val),
                             ToInt(bytes_per_file))

(***************************************************************************)
(* C4: for every byte size, sizes of zero or one column included, whenever *)
(* the gene list has the entries the rows read, get_signature_content does *)
(* not fail, and the text it returns has exactly 80 data rows after the    *)
(* header line.                                                            *)
(***************************************************************************)
C4_EightyRows ==
    /\ (Returned /\ Len(genes) >= 81) => fn_ret.exc = NoExc
    /\ Generated => Len(DataRows(fn_ret.val)) = 80

\* a size of zero columns, generated with its 80 rows
C4_Witness ==
    /\ Generated
    /\ num_columns_of(bytes_per_file) = 0
    /\ Len(DataRows(fn_ret.val)) = 80

\* row r starts with the gene at position r, no row with the one at position 0
RowsTakeGenes(rows, gs) ==
    /\ \A r \in 1..80 : Fields(rows[r])[1] = <<gs[r + 1]>>
    /\ \A r \in 1..Len(rows) : Fields(rows[r])[1] # <<gs[1]>>

(***************************************************************************)
(* C7: get_signature_content fails, with an out-of-range access, exactly   *)
(* when the gene list has fewer than 81 entries; otherwise row r starts    *)
(* with the gene at position r, r = 1..80, and position 0 is never used.   *)
(***************************************************************************)
C7_GeneIndex ==
    Returned =>
        /\ fn_ret.exc = (IF Len(genes) < 81 THEN "IndexError" ELSE NoExc)
        /\ fn_ret.exc = NoExc => RowsTakeGenes(DataRows(fn_ret.val), genes)

\* a list of exactly 80 genes, and the generation fails
C7_Witness ==
    /\ Returned
    /\ Len(genes) = 80
    /\ fn_ret.exc = "IndexError"

\* f is 'Foobar' + prefix + d1 + '_BazMoo_' + d2 + s + '-1', s of 16 letters
IsLabel(f, prefix) ==
    LET n == Len(prefix)
    IN  /\ Len(f) = n + 21
        /\ f[1] = "Foobar"
        /\ SubSeq(f, 2, n + 1) = prefix
        /\ f[n + 2] \in Digits
        /\ f[n + 3] = "_BazMoo_"
        /\ f[n + 4] \in Digits
        /\ \A k \in (n + 5)..(n + 20) : f[k] \in {"A", "B", "C", "D"}
        /\ f[n + 21] = "-1"

LabelsOf(header, prefix) ==
    /\ header[1] = <<"GENE">>
    /\ \A k \in 2..Len(header) : IsLabel(header[k], prefix)

(***************************************************************************)
(* C10: the header's first field is GENE, and every label after it is      *)
(* 'Foobar' + prefix + d1 + '_BazMoo_' + d2 + s + '-1', d1 and d2 single    *)
(* decimal digits, s a string of exactly 16 characters among A, B, C, D.   *)
(***************************************************************************)
C10_LabelForm ==
    Generated => LabelsOf(Fields(HeaderLine(fn_ret.val)), fn_arg.prefix)

(***************************************************************************)
(* The run of the script.                                                  *)
(***************************************************************************)
alphabet ==
    <<"A", "B", "C", "D", "E", "F", "G", "H", "I", "J", "K", "L", "M",
      "N", "O", "P", "Q", "R", "S", "T", "U", "V", "W", "X", "Y", "Z">>

Min(a, b) == IF a <= b THEN a ELSE b

\* s[a:b], for 0 <= a <= b: the positions a..b-1 that s has
slice(s, a, b) == SubSeq(s, Min(a, Len(s)) + 1, Min(b, Len(s)))

\* the prefixes of "for i in range(0, num_files)"
prefixes_for(n) == [k \in 1..n |-> slice(alphabet, (k - 1) * 2, ((k - 1) * 2) + 2)]

\* the str whose characters are cs
RECURSIVE Concat(_)
Concat(cs) == IF cs = << >> THEN "" ELSE Head(cs) \o Concat(Tail(cs))

\* file_name of pool_processing
file_name_of(prefix, leaf, gz) ==
    Concat(prefix) \o "_toy_data_" \o leaf \o ".txt" \o (IF gz THEN ".gz" ELSE "")

\* every CPU of the machine
default_cores_all(cpus) == cpus

\* the number of CPUs used when --num_cores is absent
default_cores(cpus) == IF cpus > 1 THEN cpus - 1 ELSE cpus

\* Pool.map's chunksize for n items on p processes
chunksize_of(n, p) ==
    IF n = 0 THEN 0
    ELSE (n \div (p * 4)) + (IF n % (p * 4) # 0 THEN 1 ELSE 0)

\* the items 1..n in consecutive chunks of the given size
chunks_of(n, size) ==
    IF n = 0 THEN << >>
    ELSE [c \in 1..((n + size - 1) \div size) |->
            [k \in 1..Min(size, n - ((c - 1) * size)) |-> ((c - 1) * size) + k]]

\* the state of the random generator when invocation i draws
seed_of(i) == (entropy + i) % 16

\* the type of what get_signature_content returns
content_type == "str"

\* GzipFile.write: a bytes-like object is required
gzip_write(type) == IF type = "bytes" THEN NoExc ELSE "TypeError"

\* open(name, 'w') and gzip.open(name, 'wb'): the file is created or emptied
opened(fs, name, mode, i) ==
    (name :> [mode    |-> mode,
              data    |-> << >>,
              writers |-> (IF name \in DOMAIN fs THEN fs[name].writers ELSE {}) \cup {i},
              opens   |-> (IF name \in DOMAIN fs THEN fs[name].opens ELSE 0) + 1])
    @@ fs

\* leaving the with block: what was written reaches the file, which is closed
closed(fs, name, data, i) ==
    [fs EXCEPT ![name].data = data, ![name].writers = @ \ {i}]

RunSizes ==
    { <<"1", "_", "K", "i", "B">>, <<"4", "_", "K">>, <<"1", "_", "X">>,
      <<"x", "_", "K">>, <<"1">> }

Leaves == {"x"}

RunGeneCounts == {num_rows, num_rows + 1}

\* the start of a run: the command line is parsed and copied to the globals
Started(args) ==
    /\ pc = "parse"
    /\ parsed_args \in args
    /\ num_files = parsed_args.num_files
    /\ filename_leaf = parsed_args.filename_leaf
    /\ size_per_file = parsed_args.size_per_file
    /\ gzip_files = parsed_args.gzip_files
    /\ num_cores = parsed_args.num_cores
    /\ bytes_per_file = Big(0, 0)
    /\ gene_ids = 0 /\ genes = << >>
    /\ prefixes = << >> /\ pool = None /\ requests = 0 /\ error = NoError
    /\ taskq = << >> /\ running = {} /\ started = 0 /\ raised = << >>
    /\ files = << >> /\ wrote = {}
    /\ fn_arg = None /\ fn_ret = NotCalled

Init ==
    /\ Started([num_files     : 1..MaxFiles,
                filename_leaf : Leaves,
                size_per_file : RunSizes,
                gzip_files    : BOOLEAN,
                num_cores     : {None} \cup {Some(n) : n \in 0..MaxCoresArg}])
    /\ cpu_count \in 1..MaxCpus
    /\ entropy \in 0..MaxSeed

\* runs that ask for as many files as the alphabet gives prefixes, and more
InitMany ==
    /\ Started([num_files     : 1..ManyFiles,
                filename_leaf : Leaves,
                size_per_file : {<<"1", "_", "K", "i", "B">>},
                gzip_files    : {FALSE},
                num_cores     : {None, Some(2)}])
    /\ cpu_count = 1
    /\ entropy = 0

\* an uncaught exception at the top level ends the run
Fail(exc, at) ==
    /\ error' = [exc |-> exc, at |-> at]
    /\ pc' = "failed"

\* going on to the fetch whatever the parser did
ParseResult_going_on(r) ==
    /\ bytes_per_file' = r.val
    /\ pc' = "fetch_search"
    /\ UNCHANGED error

\* bytes_per_file = parse_filesize_string(size_per_file)
ParseResult(r) ==
    IF r.exc # NoExc
    THEN /\ Fail(r.exc, "parse")
         /\ UNCHANGED bytes_per_file
    ELSE /\ bytes_per_file' = r.val
         /\ pc' = "fetch_search"
         /\ UNCHANGED error

ParseSize ==
    /\ pc = "parse"
    /\ ParseResult(parse_filesize_string(size_per_file))
    /\ UNCHANGED << argvars, num_cores, gene_ids, prefixes, pool, requests, mapvars,
                    genes, fn_arg, fn_ret >>

\* fetch_genes: the search request and its idlist
FetchSearch ==
    /\ pc = "fetch_search"
    /\ requests' = requests + 1
    /\ \/ \E n \in RunGeneCounts :
            /\ gene_ids' = n
            /\ pc' = "fetch_summary"
            /\ UNCHANGED error
       \/ \E exc \in {"URLError", "JSONDecodeError", "KeyError"} :
            /\ Fail(exc, "fetch_search")
            /\ UNCHANGED gene_ids
    /\ UNCHANGED << argvars, num_cores, prefixes, pool, mapvars,
                    bytes_per_file, genes, fn_arg, fn_ret >>

\* fetch_genes: the summary request, and the name of each result
FetchSummary ==
    /\ pc = "fetch_summary"
    /\ requests' = requests + 1
    /\ \/ /\ genes' = GeneList(gene_ids)
          /\ pc' = "prefixes"
          /\ UNCHANGED error
       \/ \E exc \in {"URLError", "JSONDecodeError", "KeyError"} :
            /\ Fail(exc, "fetch_summary")
            /\ UNCHANGED genes
    /\ UNCHANGED << argvars, num_cores, gene_ids, prefixes, pool, mapvars,
                    bytes_per_file, fn_arg, fn_ret >>

BuildPrefixes ==
    /\ pc = "prefixes"
    /\ prefixes' = prefixes_for(num_files)
    /\ pc' = "cores"
    /\ UNCHANGED << argvars, num_cores, gene_ids, pool, requests, error, mapvars,
                    bytes_per_file, genes, fn_arg, fn_ret >>

\* if num_cores is None: ...
ResolveCores ==
    /\ pc = "cores"
    /\ num_cores' = IF num_cores = None THEN Some(default_cores(cpu_count))
                    ELSE num_cores
    /\ pc' = "pool"
    /\ UNCHANGED << argvars, gene_ids, prefixes, pool, requests, error, mapvars,
                    bytes_per_file, genes, fn_arg, fn_ret >>

\* pool = multiprocessing.Pool(num_cores)
CreatePool ==
    /\ pc = "pool"
    /\ IF num_cores[1] < 1
       THEN /\ Fail("ValueError", "pool")
            /\ UNCHANGED pool
       ELSE /\ pool' = num_cores
            /\ pc' = "map"
            /\ UNCHANGED error
    /\ UNCHANGED << argvars, num_cores, gene_ids, prefixes, requests, mapvars,
                    bytes_per_file, genes, fn_arg, fn_ret >>

\* pool.map(pool_processing, prefixes): the chunks are queued
StartMap ==
    /\ pc = "map"
    /\ taskq' = chunks_of(Len(prefixes), chunksize_of(Len(prefixes), pool[1]))
    /\ pc' = "mapping"
    /\ UNCHANGED << argvars, num_cores, gene_ids, prefixes, pool, requests, error,
                    running, started, raised, files, wrote,
                    bytes_per_file, genes, fn_arg, fn_ret >>

\* pool_processing, to the opening of the file, by the worker that was w
\* (none, for a worker that was free) and now has these items to do
Opening(w, items, r) ==
    IF r.exc # NoExc
    THEN /\ running' = running \ w
         /\ raised' = Append(raised, r.exc)
         /\ UNCHANGED files
    ELSE /\ running' = (running \ w)
                       \cup {[items |-> items, stage |-> "opened", content |-> r.val]}
         /\ files' = opened(files,
                            file_name_of(prefixes[Head(items)], filename_leaf, gzip_files),
                            IF gzip_files THEN "gzip" ELSE "text", Head(items))
         /\ UNCHANGED raised

Call(w, items) ==
    /\ started' = started + 1
    /\ Opening(w, items,
               get_signature_content(prefixes[Head(items)], bytes_per_file, genes,
                                     seed_of(Head(items))))

\* a free worker takes the next chunk and calls pool_processing on its
\* first item
WorkerTake ==
    /\ pc = "mapping"
    /\ taskq # << >>
    /\ Cardinality(running) < pool[1]
    /\ taskq' = Tail(taskq)
    /\ Call({}, Head(taskq))
    /\ UNCHANGED << pc, argvars, num_cores, gene_ids, prefixes, pool, requests, error,
                    wrote, bytes_per_file, genes, fn_arg, fn_ret >>

\* a worker calls pool_processing on the next item of its chunk
Begin(w) ==
    /\ pc = "mapping"
    /\ w.stage = "call"
    /\ Call({w}, w.items)
    /\ UNCHANGED << pc, argvars, num_cores, gene_ids, prefixes, pool, requests, error,
                    taskq, wrote, bytes_per_file, genes, fn_arg, fn_ret >>

\* pool_processing, from f.write(content) to its end; the worker then goes
\* to the next item of its chunk, and a chunk ends with its first exception
Writing(w, i, name, exc) ==
    IF exc # NoExc
    THEN /\ files' = closed(files, name, << >>, i)
         /\ raised' = Append(raised, exc)
         /\ running' = running \ {w}
         /\ UNCHANGED wrote
    ELSE /\ files' = closed(files, name, w.content, i)
         /\ wrote' = wrote \cup {"Wrote " \o name}
         /\ running' = (running \ {w})
                       \cup (IF Len(w.items) > 1
                             THEN {[items |-> Tail(w.items), stage |-> "call",
                                    content |-> << >>]}
                             ELSE {})
         /\ UNCHANGED raised

Finish(w) ==
    /\ pc = "mapping"
    /\ w.stage = "opened"
    /\ Writing(w, Head(w.items),
               file_name_of(prefixes[Head(w.items)], filename_leaf, gzip_files),
               IF gzip_files THEN gzip_write(content_type) ELSE NoExc)
    /\ UNCHANGED << pc, argvars, num_cores, gene_ids, prefixes, pool, requests, error,
                    taskq, started, bytes_per_file, genes, fn_arg, fn_ret >>

\* pool.map returns: every chunk is done and none raised
MapReturn ==
    /\ pc = "mapping"
    /\ taskq = << >> /\ running = {} /\ raised = << >>
    /\ pc' = "done"
    /\ UNCHANGED << runvars, bytes_per_file, genes, fn_arg, fn_ret >>

\* pool.map raises: the result of a map is ready once all its chunks are
\* done, and it is the first exception that was stored
MapRaise ==
    /\ pc = "mapping"
    /\ taskq = << >> /\ running = {} /\ raised # << >>
    /\ Fail(raised[1], "map")
    /\ UNCHANGED << argvars, num_cores, gene_ids, prefixes, pool, requests, mapvars,
                    bytes_per_file, genes, fn_arg, fn_ret >>

Next ==
    \/ ParseSize
    \/ FetchSearch
    \/ FetchSummary
    \/ BuildPrefixes
    \/ ResolveCores
    \/ CreatePool
    \/ StartMap
    \/ WorkerTake
    \/ \E w \in running : Begin(w)
    \/ \E w \in running : Finish(w)
    \/ MapReturn
    \/ MapRaise

Spec == Init /\ [][Next]_vars

SpecMany == InitMany /\ [][Next]_vars

Max(a, b) == IF a >= b THEN a ELSE b

(***************************************************************************)
(* C2: a completed run of num_files = N has produced exactly N distinct    *)
(* files, named by the first N two-letter prefixes AB, CD, EF, ..; every   *)
(* prefix has exactly two letters and no two files share a name.           *)
(***************************************************************************)
C2_FilesAndNames ==
    pc = "done" =>
        /\ Cardinality(DOMAIN files) = num_files
        /\ \A k \in 1..num_files :
               /\ Len(prefixes[k]) = 2
               /\ 2 * k <= Len(alphabet)
               /\ prefixes[k] = <<alphabet[(2 * k) - 1], alphabet[2 * k]>>
               /\ file_name_of(prefixes[k], filename_leaf, FALSE) \in DOMAIN files
        /\ \A j, k \in 1..num_files :
               j # k => file_name_of(prefixes[j], filename_leaf, FALSE)
                          # file_name_of(prefixes[k], filename_leaf, FALSE)

\* the file of this name, once closed, is of this mode and holds this content
LeftAs(name, mode, content) ==
    (name \in DOMAIN files /\ files[name].writers = {})
    => /\ files[name].mode = mode
       /\ content.exc = NoExc
       /\ files[name].data = content.val

(***************************************************************************)
(* C5: with the gzip flag pool_processing completes, and leaves a .txt.gz  *)
(* file that is gzip and whose decompressed content is the content         *)
(* generated for the prefix; without the flag the file is the plain        *)
(* content and no .gz file is written.                                     *)
(***************************************************************************)
C5_GzipRoundTrip ==
    /\ gzip_files => \A k \in 1..Len(raised) : raised[k] # "TypeError"
    /\ \A k \in 1..Len(prefixes) :
           IF gzip_files
           THEN LeftAs(file_name_of(prefixes[k], filename_leaf, TRUE), "gzip",
                       get_signature_content(prefixes[k], bytes_per_file, genes, seed_of(k)))
           ELSE /\ file_name_of(prefixes[k], filename_leaf, TRUE) \notin DOMAIN files
                /\ LeftAs(file_name_of(prefixes[k], filename_leaf, FALSE), "text",
                          get_signature_content(prefixes[k], bytes_per_file, genes,
                                                seed_of(k)))

\* CPU count - 1 if the machine has more than one CPU, and 1 otherwise
DefaultPool == IF cpu_count > 1 THEN cpu_count - 1 ELSE 1

(***************************************************************************)
(* C6: for every --num_cores, absent or given, the pool that is created    *)
(* has at least 1 and at most max(1, CPU count - 1) processes; with        *)
(* --num_cores absent it has CPU count - 1 if the machine has more than    *)
(* one CPU, and 1 otherwise.                                               *)
(***************************************************************************)
C6_PoolBounded ==
    pool # None =>
        /\ pool[1] >= 1
        /\ pool[1] <= Max(1, cpu_count - 1)
        /\ parsed_args.num_cores = None => pool[1] = DefaultPool

(***************************************************************************)
(* C6, amended: the pool that is created has at least 1 process; with      *)
(* --num_cores absent it has CPU count - 1 processes if the machine has    *)
(* more than one CPU and 1 otherwise, which is at most max(1, CPU count -  *)
(* 1); with --num_cores given it has exactly that number of processes,     *)
(* whatever the CPU count, and no pool is created for a number below 1.    *)
(***************************************************************************)
C6_PoolSize ==
    /\ pool # None =>
           /\ pool[1] >= 1
           /\ IF parsed_args.num_cores = None
              THEN pool[1] = DefaultPool /\ pool[1] <= Max(1, cpu_count - 1)
              ELSE pool = parsed_args.num_cores
    /\ pc \in {"map", "mapping", "done"} => pool # None
    /\ (parsed_args.num_cores # None /\ parsed_args.num_cores[1] < 1)
           => pool = None /\ pc \notin {"map", "mapping", "done"}

\* a pool of the size --num_cores gives, above max(1, CPU count - 1)
C6_Witness ==
    /\ pool # None
    /\ parsed_args.num_cores # None
    /\ pool[1] > Max(1, cpu_count - 1)

(***************************************************************************)
(* C8: under any interleaving of the workers and for every num_files,      *)
(* each file name is opened for writing by at most one pool_processing     *)
(* invocation of a run, and never by two workers at a time; each prefix is *)
(* processed once.                                                         *)
(***************************************************************************)
C8_OneWriter ==
    /\ \A n \in DOMAIN files :
           /\ files[n].opens <= 1
           /\ Cardinality(files[n].writers) <= 1
    /\ started <= num_files
    /\ pc = "done" => started = num_files

\* no pool, no worker, no file
NothingGenerated ==
    /\ pool = None /\ taskq = << >> /\ running = {}
    /\ started = 0 /\ DOMAIN files = {} /\ wrote = {}

(***************************************************************************)
(* C9: the phases of a run are parse the size, fetch the genes, generate   *)
(* the files, in this order; a size string that does not parse ends the    *)
(* run with no request issued and no file created, a failed fetch ends it  *)
(* with no worker started and no file created; nothing is retried.         *)
(***************************************************************************)
C9_PhaseOrder ==
    /\ requests <= 2 /\ started <= num_files
    /\ (pc # "parse" /\ parse_filesize_string(size_per_file).exc # NoExc)
           => pc = "failed" /\ error.at = "parse" /\ requests = 0 /\ NothingGenerated
    /\ pc = "parse" => requests = 0 /\ NothingGenerated
    /\ requests > 0 => bytes_per_file = parse_filesize_string(size_per_file).val
    /\ pc \in {"fetch_search", "fetch_summary"} => NothingGenerated
    /\ error.at \in {"fetch_search", "fetch_summary"}
           => pc = "failed" /\ requests \in {1, 2} /\ NothingGenerated
    /\ ~NothingGenerated => requests = 2 /\ genes = GeneList(gene_ids)

\* a run that ended at the second request of the fetch
C9_Witness ==
    /\ pc = "failed"
    /\ error.at = "fetch_summary"
    /\ requests = 2

====
